---- MODULE Spec2Model ----
(***************************************************************************)
(* deno-nitro Rust backend (src/src/lib.rs).                               *)
(*                                                                         *)
(* The state machine covers the lazily initialised NITRO driver singleton  *)
(* (lazy_static!, backed by std::sync::Once), the two cfg-selected         *)
(* initializer bodies, and the attest / r_attest call path of every        *)
(* calling thread.                                                         *)
(***************************************************************************)
EXTENDS Integers, Sequences, FiniteSets, TLC

(* ------------------------------ bounds --------------------------------- *)
NumThreads == 2
MaxLen == 2
MaxCalls == 2
MaxIntCerts == 2
NumPcrSlots == 2

Threads == 1..NumThreads
ByteVals == {0, 1}

RECURSIVE SeqsUpTo(_, _)
SeqsUpTo(S, n) ==
    IF n = 0 THEN {<<>>}
    ELSE LET shorter == SeqsUpTo(S, n - 1)
         IN  shorter \cup {Append(s, x) : s \in shorter, x \in S}

(* The callers' buffers: every byte sequence of at most MaxLen bytes whose  *)
(* neighbouring bytes differ (the empty buffer, single bytes, and both     *)
(* orders of two different bytes are among them).                          *)
Buffers ==
    {s \in SeqsUpTo(ByteVals, MaxLen) : \A i \in 1..(Len(s) - 1) : s[i] # s[i + 1]}

(* ------------------------------ Option<T> ------------------------------ *)
None == <<>>
Some(x) == <<x>>

(* --------------------- build-time feature selection -------------------- *)
(* Every combination of the two cargo features.                            *)
FeatureSets == SUBSET {"nitro", "dev"}

HardwareBackend(fs) == "nitro" \in fs
MockBackend(fs) == "nitro" \notin fs

(* The crate compiles when every item it uses exists: the mock initializer *)
(* (cfg(not(feature = "nitro"))) calls Args::parse(), and Args is defined  *)
(* under cfg(feature = "dev") only.                                        *)
Compiles(fs) == MockBackend(fs) => "dev" \in fs

(* ------------------------- files read at startup ----------------------- *)
(* A file is None (unreadable) or Some(bytes).                             *)
KeyFiles == {None, Some(<<>>), Some(<<48>>), Some(<<48, 3>>)}
CertFiles == {None, Some(<<>>), Some(<<5>>)}
IntCertFiles == {None, Some(<<>>), Some(<<7>>)}
IntCertLists == SeqsUpTo(IntCertFiles, MaxIntCerts)

DefaultFiles ==
    [signing_key |-> Some(<<48, 3>>), end_cert |-> Some(<<5>>), int_certs |-> <<Some(<<7>>)>>]

(* SecretKey::from_pkcs8_der: Ok(key) for a DER encoded PKCS#8 private key,*)
(* Err otherwise.  A key is modelled as a SEQUENCE tag and one key octet.  *)
from_pkcs8_der(der) ==
    IF Len(der) = 2 /\ der[1] = 48
    THEN [ok |-> TRUE, key |-> der[2]]
    ELSE [ok |-> FALSE, key |-> 0]

(* Pcrs::zeros() *)
PcrsZeros == [i \in 1..NumPcrSlots |-> 0]
PcrsMeasured == [i \in 1..NumPcrSlots |-> 7]


(* -------------------- attestation document encoding -------------------- *)
(* The document is opaque to lib.rs; the backend encodes the request       *)
(* fields and the measurement set.  Optional field: absent = <<0>>,        *)
(* present = <<1, length>> followed by the bytes.                          *)
EncodeOpt(o) == IF o = None THEN <<0>> ELSE <<1, Len(o[1])>> \o o[1]

EncodeDocument(user_data, nonce, public_key, pcrs) ==
    EncodeOpt(user_data) \o EncodeOpt(nonce) \o EncodeOpt(public_key) \o pcrs

(* Reads the optional field that starts at index i of document d.          *)
DecodeOpt(d, i) ==
    IF d[i] = 0
    THEN [value |-> None, next |-> i + 1]
    ELSE [value |-> Some(SubSeq(d, i + 2, i + 1 + d[i + 1])), next |-> i + 2 + d[i + 1]]

DecodeDocument(d) ==
    LET ud == DecodeOpt(d, 1)
        nc == DecodeOpt(d, ud.next)
        pk == DecodeOpt(d, nc.next)
    IN  [user_data |-> ud.value, nonce |-> nc.value, public_key |-> pk.value,
         pcrs |-> SubSeq(d, pk.next, Len(d))]

(* ------------------------------ responses ------------------------------ *)
AttestationResponse(doc) == [tag |-> "Attestation", document |-> doc]
ErrorResponse == [tag |-> "Error", document |-> <<>>]
GetRandomResponse == [tag |-> "GetRandom", document |-> <<>>]

(* DevNitro::process_request: signs a document built from the request and  *)
(* the driver's measurement set.                                           *)
DevProcessRequest(driver, req) ==
    IF req.tag = "Attestation"
    THEN {AttestationResponse(
              EncodeDocument(req.user_data, req.nonce, req.public_key, driver.pcrs))}
    ELSE {ErrorResponse}

(* The security module behind the hardware driver is opaque: it answers    *)
(* with a document over the request or with a non-attestation variant.  A  *)
(* driver whose descriptor is invalid only ever answers with an error.     *)
NsmProcessRequest(driver, req) ==
    IF driver.fd < 0
    THEN {ErrorResponse}
    ELSE {AttestationResponse(
              EncodeDocument(req.user_data, req.nonce, req.public_key, PcrsMeasured)),
          ErrorResponse, GetRandomResponse}

(* Driver::process_request for Nitro, dispatching on the variant.          *)
process_request(driver, req) ==
    IF driver.variant = "Dev"
    THEN DevProcessRequest(driver, req)
    ELSE NsmProcessRequest(driver, req)

(* --------------------------- the initializer ---------------------------- *)
DevDriver(key, cert, pcrs, bundle) ==
    [variant |-> "Dev", signing_key |-> key, end_cert |-> cert, pcrs |-> pcrs,
     ca_bundle |-> bundle, fd |-> 0]

NsmDriver(fd) ==
    [variant |-> "Nsm", signing_key |-> 0, end_cert |-> <<>>, pcrs |-> <<>>,
     ca_bundle |-> <<>>, fd |-> fd]

Built(driver) == [ok |-> TRUE, driver |-> driver, error |-> "none"]
Panicked(error) == [ok |-> FALSE, driver |-> NsmDriver(-1), error |-> error]

(* A key that does not decode is replaced by a default key.                *)
DevInitDefaultKey(fl) ==
    IF \/ \E i \in 1..Len(fl.int_certs) : fl.int_certs[i] = None
       \/ fl.end_cert = None
       \/ fl.signing_key = None
    THEN {Panicked("io")}
    ELSE LET signing_key == from_pkcs8_der(fl.signing_key[1])
             int_certs == [i \in 1..Len(fl.int_certs) |-> fl.int_certs[i][1]]
         IN  {Built(DevDriver(signing_key.key, fl.end_cert[1], PcrsZeros, int_certs))}

(* The certificates are validated while the bundle is built: an empty      *)
(* buffer is rejected.                                                     *)
DevInitValidatingCerts(fl) ==
    IF \/ \E i \in 1..Len(fl.int_certs) : fl.int_certs[i] = None
       \/ fl.end_cert = None
       \/ fl.signing_key = None
    THEN {Panicked("io")}
    ELSE LET signing_key == from_pkcs8_der(fl.signing_key[1])
             int_certs == [i \in 1..Len(fl.int_certs) |-> fl.int_certs[i][1]]
         IN  IF ~signing_key.ok
             THEN {Panicked("pkcs8")}
             ELSE IF fl.end_cert[1] = <<>> \/ \E i \in 1..Len(int_certs) : int_certs[i] = <<>>
             THEN {Panicked("cert")}
             ELSE {Built(DevDriver(signing_key.key, fl.end_cert[1], PcrsZeros, int_certs))}

(* The mock driver is built with a measured (non-zero) PCR set.            *)
DevInitMeasured(fl) ==
    IF \/ \E i \in 1..Len(fl.int_certs) : fl.int_certs[i] = None
       \/ fl.end_cert = None
       \/ fl.signing_key = None
    THEN {Panicked("io")}
    ELSE LET signing_key == from_pkcs8_der(fl.signing_key[1])
             int_certs == [i \in 1..Len(fl.int_certs) |-> fl.int_certs[i][1]]
         IN  IF ~signing_key.ok
             THEN {Panicked("pkcs8")}
             ELSE {Built(DevDriver(signing_key.key, fl.end_cert[1], PcrsMeasured, int_certs))}

(* cfg(not(feature = "nitro")): read the files, decode the key, build.     *)
DevInit(fl) ==
    IF \E i \in 1..Len(fl.int_certs) : fl.int_certs[i] = None
    THEN {Panicked("io")}
    ELSE IF fl.end_cert = None
    THEN {Panicked("io")}
    ELSE IF fl.signing_key = None
    THEN {Panicked("io")}
    ELSE LET signing_key == from_pkcs8_der(fl.signing_key[1])
             int_certs == [i \in 1..Len(fl.int_certs) |-> fl.int_certs[i][1]]
         IN  IF ~signing_key.ok
             THEN {Panicked("pkcs8")}
             ELSE {Built(DevDriver(signing_key.key, fl.end_cert[1], PcrsZeros, int_certs))}

(* cfg(feature = "nitro"): Nitro::init() returns a Nitro, never a Result;  *)
(* with the security module unreachable it either panics or hands back a   *)
(* driver over an invalid descriptor.                                      *)
NitroInit(module) ==
    IF module = "available"
    THEN {Built(NsmDriver(3))}
    ELSE {Built(NsmDriver(-1)), Panicked("nsm")}

(* The body of the lazy_static initializer for a given build.              *)
Initializer(fs, fl, module) ==
    IF HardwareBackend(fs) THEN NitroInit(module) ELSE DevInit(fl)

(* ------------------------------- attest -------------------------------- *)
(* ByteBuf::from(&[u8]) copies the slice.                                  *)
ByteBufFrom(b) == [i \in 1..Len(b) |-> b[i]]

(* The buffer lands in the nonce field instead of user_data.               *)
AttestationRequestInNonce(buf) ==
    [tag |-> "Attestation", user_data |-> None, public_key |-> None, nonce |-> Some(buf)]

(* The request is built without the caller's data.                         *)
AttestationRequestNoData(buf) ==
    [tag |-> "Attestation", user_data |-> None, public_key |-> None, nonce |-> None]

AttestationRequest(buf) ==
    [tag |-> "Attestation", user_data |-> Some(buf), public_key |-> None, nonce |-> None]

(* The document is dropped: every response gives the empty vector.         *)
ExtractDocumentDropped(resp) ==
    IF resp.tag = "Attestation" THEN SubSeq(resp.document, 1, 0) ELSE <<>>

(* The else branch returns a one-byte marker instead of an empty vector.   *)
ExtractDocumentMarker(resp) ==
    IF resp.tag = "Attestation" THEN resp.document ELSE <<0>>

(* The document loses its last byte on the way out.                        *)
ExtractDocumentTruncated(resp) ==
    IF resp.tag = "Attestation"
    THEN SubSeq(resp.document, 1, Len(resp.document) - 1)
    ELSE <<>>

(* if let Response::Attestation { document } = response { document } else { vec![] } *)
ExtractDocument(resp) ==
    IF resp.tag = "Attestation" THEN resp.document ELSE <<>>


(* -------------------------------- state -------------------------------- *)
VARIABLES
    features,       \* cargo features of the build
    files,          \* contents of the files named by Args
    nsm,            \* "available" / "unavailable": the security module
    once,           \* state of the Once guarding NITRO
    NITRO,          \* None, or Some(driver) once the initializer returned
    constructions,  \* number of times the initializer body was entered
    initError,      \* "none", or the error the initializer panicked with
    aborted,        \* the process has aborted
    pc,             \* per thread: "idle", "deref", "init", "call", "got"
    bytes,          \* per thread: the caller's buffer
    request,        \* per thread: None or Some(request handed to the driver)
    response,       \* per thread: None or Some(response of the driver)
    result,         \* per thread: the Vec<u8> returned by the last call
    outcome,        \* per thread: "none", "returned", "panicked"
    calls,          \* number of attest calls started so far
    instance,       \* per thread: construction number of the driver used
    trips           \* per thread: process_request round trips of the call

env == <<features, files, nsm>>
shared == <<once, NITRO, constructions, initError, aborted>>
vars == <<features, files, nsm, once, NITRO, constructions, initError,
          aborted, pc, bytes, request, response, result, outcome, calls, instance, trips>>

Init ==
    /\ features \in FeatureSets
    /\ files \in IF MockBackend(features) /\ Compiles(features)
                 THEN [signing_key : KeyFiles, end_cert : CertFiles, int_certs : IntCertLists]
                 ELSE {DefaultFiles}
    /\ nsm \in IF HardwareBackend(features) THEN {"available", "unavailable"} ELSE {"unavailable"}
    /\ once = "INCOMPLETE"
    /\ NITRO = None
    /\ constructions = 0
    /\ initError = "none"
    /\ aborted = FALSE
    /\ pc = [t \in Threads |-> "idle"]
    /\ bytes = [t \in Threads |-> <<>>]
    /\ request = [t \in Threads |-> None]
    /\ response = [t \in Threads |-> None]
    /\ result = [t \in Threads |-> <<>>]
    /\ outcome = [t \in Threads |-> "none"]
    /\ calls = 0
    /\ instance = [t \in Threads |-> 0]
    /\ trips = [t \in Threads |-> 0]

(* What a panic leaving attest does: "abort" ends the process (the panic  *)
(* reaches the extern "C" boundary of the exported symbol), "unwind" ends  *)
(* only the call of thread t, without a value (a Rust caller).             *)
PanicStrategies == {"abort", "unwind"}

Panic(t, strategy) ==
    IF strategy = "abort"
    THEN /\ aborted' = TRUE
         /\ UNCHANGED <<pc, outcome>>
    ELSE /\ aborted' = aborted
         /\ pc' = [pc EXCEPT ![t] = "idle"]
         /\ outcome' = [outcome EXCEPT ![t] = "panicked"]

(* attest(bytes): a thread enters the exported function; there is one to   *)
(* enter only if the crate was built.                                      *)
Attest(t, b) ==
    /\ Compiles(features)
    /\ ~aborted
    /\ pc[t] = "idle"
    /\ calls < MaxCalls
    /\ pc' = [pc EXCEPT ![t] = "deref"]
    /\ bytes' = [bytes EXCEPT ![t] = b]
    /\ request' = [request EXCEPT ![t] = None]
    /\ response' = [response EXCEPT ![t] = None]
    /\ result' = [result EXCEPT ![t] = <<>>]
    /\ outcome' = [outcome EXCEPT ![t] = "none"]
    /\ calls' = calls + 1
    /\ instance' = [instance EXCEPT ![t] = 0]
    /\ trips' = [trips EXCEPT ![t] = 0]
    /\ UNCHANGED <<env, shared>>

(* The request is built from a buffer shared by all callers.               *)
EnterCallSharedBuffer(t) ==
    /\ pc' = [pc EXCEPT ![t] = "call"]
    /\ \E u \in Threads :
          request' = [request EXCEPT ![t] = Some(AttestationRequest(ByteBufFrom(bytes[u])))]

(* r_attest builds the request once the receiver NITRO is available.       *)
EnterCall(t) ==
    /\ pc' = [pc EXCEPT ![t] = "call"]
    /\ request' = [request EXCEPT ![t] = Some(AttestationRequest(ByteBufFrom(bytes[t])))]

(* First dereference of NITRO: this thread wins the Once and enters the    *)
(* initializer.                                                            *)
DerefFirst(t) ==
    /\ ~aborted
    /\ pc[t] = "deref"
    /\ once = "INCOMPLETE"
    /\ once' = "RUNNING"
    /\ constructions' = constructions + 1
    /\ pc' = [pc EXCEPT ![t] = "init"]
    /\ UNCHANGED <<env, NITRO, initError, aborted>>
    /\ UNCHANGED <<bytes, request, response, result, outcome, calls, instance, trips>>

(* Dereference of the initialised NITRO.                                   *)
DerefReady(t) ==
    /\ ~aborted
    /\ pc[t] = "deref"
    /\ once = "COMPLETE"
    /\ EnterCall(t)
    /\ UNCHANGED <<env, shared>>
    /\ UNCHANGED <<bytes, response, result, outcome, calls, instance, trips>>

(* Dereference after the initializer panicked: call_once panics.           *)
DerefPoisoned(t) ==
    /\ ~aborted
    /\ pc[t] = "deref"
    /\ once = "POISONED"
    /\ \E strategy \in PanicStrategies : Panic(t, strategy)
    /\ UNCHANGED <<env, once, NITRO, constructions, initError>>
    /\ UNCHANGED <<bytes, request, response, result, calls, instance, trips>>

(* Check-then-act without the Once: a thread that finds the initializer    *)
(* running runs it as well.                                                *)
DerefUnsynchronised(t) ==
    \/ DerefFirst(t)
    \/ DerefReady(t)
    \/ DerefPoisoned(t)
    \/ /\ ~aborted
       /\ pc[t] = "deref"
       /\ once = "RUNNING"
       /\ constructions' = constructions + 1
       /\ pc' = [pc EXCEPT ![t] = "init"]
       /\ UNCHANGED <<env, once, NITRO, initError, aborted>>
       /\ UNCHANGED <<bytes, request, response, result, outcome, calls, instance, trips>>

(* A thread that finds the initializer running does not wait for it.       *)
DerefNoWait(t) ==
    \/ DerefFirst(t)
    \/ DerefReady(t)
    \/ DerefPoisoned(t)
    \/ /\ ~aborted
       /\ pc[t] = "deref"
       /\ once = "RUNNING"
       /\ EnterCall(t)
       /\ UNCHANGED <<env, shared>>
       /\ UNCHANGED <<bytes, response, result, outcome, calls, instance, trips>>

(* A poisoned Once is treated like a completed one.                        *)
DerefIgnoresPoison(t) ==
    \/ DerefFirst(t)
    \/ DerefReady(t)
    \/ /\ ~aborted
       /\ pc[t] = "deref"
       /\ once = "POISONED"
       /\ EnterCall(t)
       /\ UNCHANGED <<env, shared>>
       /\ UNCHANGED <<bytes, response, result, outcome, calls, instance, trips>>

(* Threads parked on the Once are not woken when the initializer panics.   *)
DerefNoWakeOnPoison(t) ==
    \/ DerefFirst(t)
    \/ DerefReady(t)

(* Deref of the lazy static.  While once = "RUNNING" no disjunct is        *)
(* enabled: the thread is parked until the initializer ends.               *)
Deref(t) ==
    \/ DerefFirst(t)
    \/ DerefReady(t)
    \/ DerefPoisoned(t)

(* The initializer returns a driver: it is stored and the Once completes.  *)
InitComplete(t) ==
    /\ ~aborted
    /\ pc[t] = "init"
    /\ \E o \in Initializer(features, files, nsm) :
          /\ o.ok
          /\ NITRO' = Some([driver |-> o.driver, instance |-> constructions])
    /\ once' = "COMPLETE"
    /\ EnterCall(t)
    /\ UNCHANGED <<env, constructions, initError, aborted>>
    /\ UNCHANGED <<bytes, response, result, outcome, calls, instance, trips>>

(* The initializer panics: nothing is stored; the Once is poisoned when    *)
(* the panic unwinds.                                                      *)
InitPanic(t) ==
    /\ ~aborted
    /\ pc[t] = "init"
    /\ \E o \in Initializer(features, files, nsm) :
          /\ ~o.ok
          /\ initError' = o.error
    /\ \E strategy \in PanicStrategies :
          /\ once' = IF strategy = "unwind" THEN "POISONED" ELSE once
          /\ Panic(t, strategy)
    /\ UNCHANGED <<env, NITRO, constructions>>
    /\ UNCHANGED <<bytes, request, response, result, calls, instance, trips>>

(* The driver keeps the data of the last request it served.                *)
ProcessRequestCaching(t) ==
    /\ ~aborted
    /\ pc[t] = "call"
    /\ \E r \in process_request(NITRO[1].driver, request[t][1]) :
          response' = [response EXCEPT ![t] = Some(r)]
    /\ NITRO' = Some([NITRO[1] EXCEPT !.driver.ca_bundle = request[t][1].user_data])
    /\ instance' = [instance EXCEPT ![t] = NITRO[1].instance]
    /\ trips' = [trips EXCEPT ![t] = @ + 1]
    /\ pc' = [pc EXCEPT ![t] = "got"]
    /\ UNCHANGED <<env, once, constructions, initError, aborted>>
    /\ UNCHANGED <<bytes, request, result, outcome, calls>>

(* NITRO.process_request(request): one synchronous round trip.             *)
ProcessRequest(t) ==
    /\ ~aborted
    /\ pc[t] = "call"
    /\ \E r \in process_request(NITRO[1].driver, request[t][1]) :
          response' = [response EXCEPT ![t] = Some(r)]
    /\ instance' = [instance EXCEPT ![t] = NITRO[1].instance]
    /\ trips' = [trips EXCEPT ![t] = @ + 1]
    /\ pc' = [pc EXCEPT ![t] = "got"]
    /\ UNCHANGED <<env, shared>>
    /\ UNCHANGED <<bytes, request, result, outcome, calls>>

(* A response that is not an attestation is answered by submitting the     *)
(* request once more.                                                      *)
ReturnOrRetry(t) ==
    /\ ~aborted
    /\ pc[t] = "got"
    /\ IF response[t][1].tag = "Attestation" \/ trips[t] >= 2
       THEN /\ result' = [result EXCEPT ![t] = ExtractDocument(response[t][1])]
            /\ outcome' = [outcome EXCEPT ![t] = "returned"]
            /\ pc' = [pc EXCEPT ![t] = "idle"]
       ELSE /\ pc' = [pc EXCEPT ![t] = "call"]
            /\ UNCHANGED <<result, outcome>>
    /\ UNCHANGED <<env, shared>>
    /\ UNCHANGED <<bytes, request, response, calls, instance, trips>>

(* A response that is not an attestation makes r_attest panic.             *)
ReturnOrPanic(t) ==
    /\ ~aborted
    /\ pc[t] = "got"
    /\ IF response[t][1].tag = "Attestation"
       THEN /\ result' = [result EXCEPT ![t] = ExtractDocument(response[t][1])]
            /\ outcome' = [outcome EXCEPT ![t] = "returned"]
            /\ pc' = [pc EXCEPT ![t] = "idle"]
            /\ aborted' = aborted
       ELSE /\ \E strategy \in PanicStrategies : Panic(t, strategy)
            /\ result' = result
    /\ UNCHANGED <<env, once, NITRO, constructions, initError>>
    /\ UNCHANGED <<bytes, request, response, calls, instance, trips>>

(* r_attest unwraps the response and attest returns the bytes.             *)
Return(t) ==
    /\ ~aborted
    /\ pc[t] = "got"
    /\ result' = [result EXCEPT ![t] = ExtractDocument(response[t][1])]
    /\ outcome' = [outcome EXCEPT ![t] = "returned"]
    /\ pc' = [pc EXCEPT ![t] = "idle"]
    /\ UNCHANGED <<env, shared>>
    /\ UNCHANGED <<bytes, request, response, calls, instance, trips>>

Next ==
    \/ \E t \in Threads, b \in Buffers : Attest(t, b)
    \/ \E t \in Threads : Deref(t)
    \/ \E t \in Threads : InitComplete(t)
    \/ \E t \in Threads : InitPanic(t)
    \/ \E t \in Threads : ProcessRequest(t)
    \/ \E t \in Threads : Return(t)

Spec == Init /\ [][Next]_vars

(* Every thread inside attest keeps running: the initializer and           *)
(* process_request terminate, and a thread that can leave the Once is      *)
(* eventually scheduled.  Nothing obliges a caller to start a call.        *)
Fairness ==
    \A t \in Threads :
        /\ WF_vars(Deref(t))
        /\ WF_vars(InitComplete(t) \/ InitPanic(t))
        /\ WF_vars(ProcessRequest(t))
        /\ WF_vars(Return(t))

(* Whether a call ends does not depend on the bytes passed or on the       *)
(* certificate contents: the fair specification keeps an empty and a       *)
(* non-empty buffer, and at most one intermediate certificate.             *)
FairBuffers == {b \in Buffers : Len(b) <= 1 /\ (Len(b) = 1 => b[1] = 1)}

FairInit ==
    /\ Init
    /\ Len(files.int_certs) <= 1
    /\ files.end_cert # Some(<<>>)

FairNext ==
    \/ \E t \in Threads, b \in FairBuffers : Attest(t, b)
    \/ \E t \in Threads : Deref(t)
    \/ \E t \in Threads : InitComplete(t)
    \/ \E t \in Threads : InitPanic(t)
    \/ \E t \in Threads : ProcessRequest(t)
    \/ \E t \in Threads : Return(t)

FairSpec == FairInit /\ [][FairNext]_vars /\ Fairness


(* ------------------------------ properties ----------------------------- *)
Attested(t) == response[t] # None /\ response[t][1].tag = "Attestation"
NotAttested(t) == response[t] # None /\ response[t][1].tag # "Attestation"
Returned(t) == pc[t] = "idle" /\ outcome[t] = "returned"

(* C1: however the threads race on the first access, the initializer of    *)
(* NITRO is entered at most once, and it has been entered exactly once as  *)
(* soon as any attest call has got to the driver or returned.              *)
C1_ConstructedExactlyOnce ==
    /\ constructions <= 1
    /\ \A t \in Threads :
          (outcome[t] = "returned" \/ pc[t] \in {"call", "got"}) => constructions = 1

C1_Witness ==
    \E t1, t2 \in Threads :
        /\ t1 # t2
        /\ Returned(t1)
        /\ Returned(t2)
        /\ constructions = 1

(* C2: a call whose response from the driver is not the Attestation        *)
(* variant ends by returning the empty byte sequence; it does not panic.   *)
C2_NonAttestationYieldsEmpty ==
    \A t \in Threads :
        (NotAttested(t) /\ pc[t] = "idle") =>
            /\ outcome[t] = "returned"
            /\ result[t] = <<>>
            /\ ~aborted

C2_Witness ==
    \E t1, t2 \in Threads :
        /\ Returned(t1) /\ response[t1] = Some(ErrorResponse)
        /\ Returned(t2) /\ response[t2] = Some(GetRandomResponse)

(* C3: a call whose response is Attestation{document} returns exactly      *)
(* that document, byte for byte.                                           *)
C3_DocumentReturnedVerbatim ==
    \A t \in Threads :
        (Attested(t) /\ pc[t] = "idle") =>
            /\ outcome[t] = "returned"
            /\ result[t] = response[t][1].document

C3_Witness ==
    \E t \in Threads :
        /\ Returned(t)
        /\ Attested(t)
        /\ Len(result[t]) >= 2
        /\ \E i, j \in 1..Len(result[t]) : result[t][i] # result[t][j]

(* C4: the request a call hands to the driver is Attestation with          *)
(* user_data = the caller's bytes, public_key = None and nonce = None;     *)
(* no call reaches the driver without such a request.                      *)
C4_RequestCarriesUserData ==
    \A t \in Threads :
        /\ pc[t] \in {"call", "got"} => request[t] # None
        /\ request[t] # None =>
              /\ request[t][1].tag = "Attestation"
              /\ request[t][1].user_data = Some(bytes[t])
              /\ request[t][1].public_key = None
              /\ request[t][1].nonce = None

C4_Witness ==
    \E t1, t2 \in Threads :
        /\ response[t1] # None /\ bytes[t1] = <<>>
        /\ response[t2] # None /\ Len(bytes[t2]) >= 2 /\ bytes[t2][1] # bytes[t2][2]

(* C5: under the mock backend every returned result is a non-empty         *)
(* document that decodes to user_data = the caller's bytes, with nonce     *)
(* and public_key absent; this includes the empty buffer.                  *)
C5_MockDocumentCarriesUserData ==
    \A t \in Threads :
        (MockBackend(features) /\ Returned(t)) =>
            /\ result[t] # <<>>
            /\ DecodeDocument(result[t]).user_data = Some(bytes[t])
            /\ DecodeDocument(result[t]).nonce = None
            /\ DecodeDocument(result[t]).public_key = None

C5_Witness ==
    \E t1, t2 \in Threads :
        /\ MockBackend(features)
        /\ Returned(t1) /\ bytes[t1] = <<>>
        /\ DecodeDocument(result[t1]).user_data = Some(<<>>)
        /\ Returned(t2) /\ Len(bytes[t2]) >= 2


CertsReadable ==
    /\ files.end_cert # None
    /\ \A i \in 1..Len(files.int_certs) : files.int_certs[i] # None

MalformedSigningKey ==
    /\ MockBackend(features)
    /\ files.signing_key # None
    /\ ~from_pkcs8_der(files.signing_key[1]).ok

ConstructionFailed == initError # "none"

(* C6: with a signing key that is not valid PKCS#8 DER, the mock           *)
(* initializer never stores a driver and the Once never completes, so no   *)
(* call gets to a driver; when the key bytes are reached (the certificate  *)
(* files were readable) the initializer ends with the key-decode error.    *)
C6_MalformedKeyNeverYieldsDriver ==
    MalformedSigningKey =>
        /\ NITRO = None
        /\ once # "COMPLETE"
        /\ \A t \in Threads : pc[t] \notin {"call", "got"} /\ outcome[t] # "returned"
        /\ CertsReadable => initError \in {"none", "pkcs8"}

C6_Witness ==
    /\ MalformedSigningKey
    /\ CertsReadable
    /\ initError = "pkcs8"
    /\ NITRO = None
    /\ \E t \in Threads : outcome[t] = "panicked"

(* C7: after the initializer has panicked there is no driver, and no       *)
(* attest call (of the failing thread, of a waiting thread or of a later   *)
(* one) reaches a driver or returns a value.                               *)
C7_NoResultAfterFailedConstruction ==
    ConstructionFailed =>
        /\ NITRO = None
        /\ \A t \in Threads :
              /\ pc[t] \notin {"call", "got"}
              /\ outcome[t] # "returned"
              /\ response[t] = None

C7_Witness ==
    /\ ConstructionFailed
    /\ ~aborted
    /\ \E t1, t2 \in Threads : t1 # t2 /\ outcome[t1] = "panicked" /\ outcome[t2] = "panicked"

(* C8: a call that has ended returned a document or the empty result, or   *)
(* it panicked; panics and aborts occur only while the Once has not        *)
(* completed.  Once it has completed, no call panics and the process is    *)
(* not aborted: a response without a document gives the empty result.      *)
C8_AbortOnlyDuringInitialization ==
    /\ once = "COMPLETE" => (~aborted /\ \A t \in Threads : outcome[t] # "panicked")
    /\ aborted => (once \in {"RUNNING", "POISONED"} /\ NITRO = None)
    /\ \A t \in Threads :
          /\ outcome[t] = "panicked" => once = "POISONED"
          /\ outcome[t] = "returned" =>
                \/ Attested(t) /\ result[t] = response[t][1].document
                \/ NotAttested(t) /\ result[t] = <<>>
          /\ (pc[t] = "idle" /\ response[t] # None) => outcome[t] = "returned"

C8_Witness ==
    /\ once = "COMPLETE"
    /\ \E t1, t2 \in Threads :
          /\ Returned(t1) /\ NotAttested(t1) /\ result[t1] = <<>>
          /\ Returned(t2) /\ Attested(t2) /\ result[t2] # <<>>

(* C9: process_request is only ever invoked when the Once has completed    *)
(* and NITRO holds the driver; a thread that dereferences NITRO while the  *)
(* initializer runs stays parked; the stored instance never changes and    *)
(* every call uses it.                                                     *)
C9_NoRequestBeforeConstruction ==
    /\ [](\A t \in Threads :
             /\ pc[t] \in {"call", "got"} => (once = "COMPLETE" /\ NITRO # None)
             /\ response[t] # None => (NITRO # None /\ instance[t] = NITRO[1].instance))
    /\ [][/\ \A t \in Threads :
                (pc[t] = "deref" /\ once = "RUNNING" /\ once' = "RUNNING") => pc'[t] = "deref"
          /\ NITRO # None => NITRO' = NITRO]_vars

C9_Witness ==
    \E t1, t2 \in Threads :
        /\ pc[t1] = "init"
        /\ pc[t2] = "deref"
        /\ once = "RUNNING"
        /\ NITRO = None

(* C10: in every interleaving, the response a call holds and the result    *)
(* it returns are those of a call made alone with its own bytes on the     *)
(* singleton; the calls running beside it have no influence.               *)
C10_ResultAnswersOwnRequest ==
    \A t \in Threads :
        response[t] # None =>
            /\ NITRO # None
            /\ request[t] = Some(AttestationRequest(bytes[t]))
            /\ response[t][1] \in process_request(NITRO[1].driver, AttestationRequest(bytes[t]))
            /\ Attested(t) => DecodeDocument(response[t][1].document).user_data = Some(bytes[t])
            /\ outcome[t] = "returned" => result[t] = ExtractDocument(response[t][1])

C10_Witness ==
    \E t1, t2 \in Threads :
        /\ pc[t1] = "got" /\ Attested(t1)
        /\ pc[t2] = "got" /\ Attested(t2)
        /\ bytes[t1] # bytes[t2]
        /\ response[t1] # response[t2]


(* C11: a call makes exactly one process_request round trip: none before   *)
(* the driver is reached, one from then on, whatever the response is.      *)
C11_SingleRoundTrip ==
    \A t \in Threads :
        /\ trips[t] <= 1
        /\ pc[t] \in {"deref", "init", "call"} => trips[t] = 0
        /\ (pc[t] = "got" \/ outcome[t] = "returned") => trips[t] = 1

C11_Witness ==
    \E t1, t2 \in Threads :
        /\ Returned(t1) /\ NotAttested(t1) /\ trips[t1] = 1
        /\ Returned(t2) /\ Attested(t2) /\ trips[t2] = 1


(* The drivers the initializer of this build can return.                   *)
BuildableDrivers == {o.driver : o \in {x \in Initializer(features, files, nsm) : x.ok}}

(* C12: once NITRO holds a driver, it is a driver the initializer built    *)
(* and no step changes it (nor the Once, nor the construction count):      *)
(* calls leave nothing behind in the singleton.                            *)
C12_ConfigurationImmutable ==
    /\ [](NITRO # None => (NITRO[1].driver \in BuildableDrivers /\ once = "COMPLETE"))
    /\ [][NITRO # None =>
             (NITRO' = NITRO /\ once' = once /\ constructions' = constructions)]_vars

C12_Witness ==
    /\ NITRO # None
    /\ \E t1, t2 \in Threads :
          /\ Returned(t1)
          /\ Returned(t2)
          /\ bytes[t1] # bytes[t2]
          /\ trips[t1] = 1 /\ trips[t2] = 1


Variant == NITRO[1].driver.variant

(* C13: for every combination of the `nitro` and `dev` features there is   *)
(* a build, it selects exactly one of the two backends, and the singleton  *)
(* is built from that backend.                                             *)
C13_OneVariantForEveryFeatureSet ==
    /\ Compiles(features)
    /\ HardwareBackend(features) # MockBackend(features)
    /\ NITRO # None => (Variant = "Nsm") = HardwareBackend(features)
    /\ NITRO # None => (Variant = "Dev") = MockBackend(features)

(* C14: with `dev` enabled the singleton is the mock driver built from the *)
(* configured key and certificates; with `nitro` enabled it is the         *)
(* hardware driver.                                                        *)
C14_FeatureSelectsDriver ==
    NITRO # None =>
        /\ "dev" \in features =>
              (Variant = "Dev" /\ {NITRO[1].driver} = {o.driver : o \in DevInit(files)})
        /\ "nitro" \in features => Variant = "Nsm"


AllZero(p) == Len(p) = NumPcrSlots /\ \A i \in 1..Len(p) : p[i] = 0

ModuleUnreachable == HardwareBackend(features) /\ nsm = "unavailable"

(* C16: with the security module unreachable the hardware initializer      *)
(* fails with the driver-initialization error: no driver is ever stored    *)
(* (of either variant) and no call reaches a driver or returns a value.    *)
C16_UnreachableModuleIsFatal ==
    ModuleUnreachable =>
        /\ NITRO = None
        /\ once # "COMPLETE"
        /\ initError \in {"none", "nsm"}
        /\ \A t \in Threads : pc[t] \notin {"call", "got"} /\ outcome[t] # "returned"


MockBuild == MockBackend(features) /\ Compiles(features)

FilesReadable == CertsReadable /\ files.signing_key # None

KeyDecodes == files.signing_key # None /\ from_pkcs8_der(files.signing_key[1]).ok

C18_EmptyIffNotAttested ==
    \A t \in Threads :
        Returned(t) =>
            /\ (result[t] = <<>>) = NotAttested(t)
            /\ (result[t] # <<>>) = Attested(t)
            /\ (Attested(t) /\ bytes[t] = <<>>) => Len(result[t]) > 0

C18_Witness ==
    \E t1, t2 \in Threads :
        /\ Returned(t1) /\ Attested(t1) /\ bytes[t1] = <<>> /\ result[t1] # <<>>
        /\ Returned(t2) /\ NotAttested(t2) /\ result[t2] = <<>>


InCall(t) == pc[t] # "idle"

(* C19: under fair scheduling every started call ends (it returns or       *)
(* panics) or the process aborts; no thread stays parked on the Once,      *)
(* also when the initializer of another thread fails.                      *)
C19_EveryCallEnds ==
    \A t \in Threads : InCall(t) ~> (~InCall(t) \/ aborted)

C19_Witness ==
    /\ once = "POISONED"
    /\ ~aborted
    /\ \E t1, t2 \in Threads :
          /\ t1 # t2
          /\ ~InCall(t1) /\ outcome[t1] = "panicked" /\ trips[t1] = 0
          /\ ~InCall(t2) /\ outcome[t2] = "panicked" /\ trips[t2] = 0

====
